---------------------------- MODULE Spec2Model ----------------------------
(***************************************************************************)
(* A model of src/bot.py, the movie search bot: the per-user pending       *)
(* state kept in context.user_data, the favorites file, and the handlers   *)
(* registered in main_async.  Strings are sequences of one-character       *)
(* strings, so that lower(), strip(), split(), replace() and the substring *)
(* test are computed as Python computes them.                              *)
(***************************************************************************)
EXTENDS Naturals, Sequences, FiniteSets

(***************************************************************************)
(* Python's str operations used by the handlers.                           *)
(***************************************************************************)
Whitespace == {" ", "\t", "\n"}

UpperAlpha == <<"A", "B", "C", "D", "E", "F", "G", "H", "I", "J", "K", "L", "M",
                "N", "O", "P", "Q", "R", "S", "T", "U", "V", "W", "X", "Y", "Z">>
LowerAlpha == <<"a", "b", "c", "d", "e", "f", "g", "h", "i", "j", "k", "l", "m",
                "n", "o", "p", "q", "r", "s", "t", "u", "v", "w", "x", "y", "z">>

LowerChar(c) ==
    IF \E i \in 1..26 : UpperAlpha[i] = c
    THEN LowerAlpha[CHOOSE i \in 1..26 : UpperAlpha[i] = c]
    ELSE c

\* s.lower()
Lower(s) == [i \in 1..Len(s) |-> LowerChar(s[i])]

\* s[i:].startswith(p), i counted from 1
StartsWithAt(s, p, i) ==
    /\ i + Len(p) - 1 <= Len(s)
    /\ \A k \in 1..Len(p) : s[i + k - 1] = p[k]

\* p in s
Contains(s, p) == \E i \in 1..(Len(s) + 1) : StartsWithAt(s, p, i)

RECURSIVE RemoveFrom(_, _, _)
RemoveFrom(s, old, i) ==
    IF i > Len(s) THEN <<>>
    ELSE IF Len(old) > 0 /\ StartsWithAt(s, old, i)
         THEN RemoveFrom(s, old, i + Len(old))
         ELSE <<s[i]>> \o RemoveFrom(s, old, i + 1)

\* s.replace(old, ""): the non-overlapping occurrences, left to right
Remove(s, old) == RemoveFrom(s, old, 1)

RECURSIVE LStrip(_)
LStrip(s) == IF s # <<>> /\ s[1] \in Whitespace THEN LStrip(Tail(s)) ELSE s

RECURSIVE RStrip(_)
RStrip(s) ==
    IF s # <<>> /\ s[Len(s)] \in Whitespace
    THEN RStrip(SubSeq(s, 1, Len(s) - 1))
    ELSE s

\* the text as it is: .strip() left out
Strip_Omitted(s) == s

\* s.strip()
Strip(s) == RStrip(LStrip(s))

RECURSIVE SplitFrom(_, _, _)
SplitFrom(s, i, word) ==
    IF i > Len(s) THEN (IF word = <<>> THEN <<>> ELSE <<word>>)
    ELSE IF s[i] \in Whitespace
         THEN (IF word = <<>> THEN <<>> ELSE <<word>>) \o SplitFrom(s, i + 1, <<>>)
         ELSE SplitFrom(s, i + 1, Append(word, s[i]))

\* s.split(): the words between runs of whitespace
Split(s) == SplitFrom(s, 1, <<>>)

RECURSIVE SplitOnFrom(_, _, _, _)
SplitOnFrom(s, sep, i, part) ==
    IF i > Len(s) THEN <<part>>
    ELSE IF s[i] = sep
         THEN <<part>> \o SplitOnFrom(s, sep, i + 1, <<>>)
         ELSE SplitOnFrom(s, sep, i + 1, Append(part, s[i]))

\* s.split(sep) for a one-character separator: empty parts are kept
SplitOn(s, sep) == SplitOnFrom(s, sep, 1, <<>>)

RECURSIVE Join(_, _)
\* sep.join(words)
Join(words, sep) ==
    IF words = <<>> THEN <<>>
    ELSE IF Len(words) = 1 THEN words[1]
    ELSE words[1] \o sep \o Join(Tail(words), sep)

\* the slice left out: the whole sequence
Take_Everything(s, n) == s

\* s[:n]
Take(s, n) == SubSeq(s, 1, IF Len(s) < n THEN Len(s) ELSE n)

\* s.capitalize()
Capitalize(s) ==
    [i \in 1..Len(s) |->
        IF i = 1
        THEN (IF \E k \in 1..26 : LowerAlpha[k] = s[1]
              THEN UpperAlpha[CHOOSE k \in 1..26 : LowerAlpha[k] = s[1]]
              ELSE s[1])
        ELSE LowerChar(s[i])]

\* dict.get(key, default) on a dict modelled as a function
Get(d, key, default) == IF key \in DOMAIN d THEN d[key] ELSE default


RECURSIVE Str(_)
\* str(n) for a natural number
Str(n) ==
    LET Digits == <<"0", "1", "2", "3", "4", "5", "6", "7", "8", "9">>
    IN  IF n < 10 THEN <<Digits[n + 1]>>
        ELSE Str(n \div 10) \o <<Digits[(n % 10) + 1]>>

IsDigits(s) == s # <<>> /\ \A i \in 1..Len(s) :
    s[i] \in {"0", "1", "2", "3", "4", "5", "6", "7", "8", "9"}

(***************************************************************************)
(* The phrases text_message_handler looks for, and the words of the texts, *)
(* commands and callback data the model sends.                             *)
(***************************************************************************)
P_cari_film == <<"c", "a", "r", "i", " ", "f", "i", "l", "m">>
P_search_movie == <<"s", "e", "a", "r", "c", "h", " ", "m", "o", "v", "i", "e">>
P_cari_aktor == <<"c", "a", "r", "i", " ", "a", "k", "t", "o", "r">>
P_search_actor == <<"s", "e", "a", "r", "c", "h", " ", "a", "c", "t", "o", "r">>
P_trending == <<"t", "r", "e", "n", "d", "i", "n", "g">>
P_film_populer == <<"f", "i", "l", "m", " ", "p", "o", "p", "u", "l", "e", "r">>
P_genre == <<"g", "e", "n", "r", "e">>
P_favorit == <<"f", "a", "v", "o", "r", "i", "t">>
P_favorites == <<"f", "a", "v", "o", "r", "i", "t", "e", "s">>
P_tambah == <<"t", "a", "m", "b", "a", "h">>
P_add == <<"a", "d", "d">>
P_tambah_favorit == <<"t", "a", "m", "b", "a", "h", " ", "f", "a", "v", "o", "r", "i", "t">>
P_add_to_favorites == <<"a", "d", "d", " ", "t", "o", " ", "f", "a", "v", "o", "r", "i", "t", "e", "s">>
P_bioskop == <<"b", "i", "o", "s", "k", "o", "p">>
P_cinema == <<"c", "i", "n", "e", "m", "a">>
P_bantuan == <<"b", "a", "n", "t", "u", "a", "n">>
P_help == <<"h", "e", "l", "p">>
P_menu == <<"m", "e", "n", "u">>
P_start == <<"s", "t", "a", "r", "t">>

W_cari == <<"c", "a", "r", "i">>
W_film == <<"f", "i", "l", "m">>
W_search == <<"s", "e", "a", "r", "c", "h">>
W_movie == <<"m", "o", "v", "i", "e">>
W_aktor == <<"a", "k", "t", "o", "r">>
W_actor == <<"a", "c", "t", "o", "r">>
W_populer == <<"p", "o", "p", "u", "l", "e", "r">>
W_to == <<"t", "o">>
W_up == <<"u", "p">>
W_tom == <<"t", "o", "m">>
W_action == <<"a", "c", "t", "i", "o", "n">>
W_horror == <<"h", "o", "r", "r", "o", "r">>
W_detail == <<"d", "e", "t", "a", "i", "l">>
W_save == <<"s", "a", "v", "e">>
W_main == <<"m", "a", "i", "n">>
W_genres == <<"g", "e", "n", "r", "e", "s">>
W_favorite == <<"f", "a", "v", "o", "r", "i", "t", "e">>
W_nearest_cinema == <<"n", "e", "a", "r", "e", "s", "t", "_", "c", "i", "n", "e", "m", "a">>
W_bogus == <<"b", "o", "g", "u", "s">>
W_Up == <<"U", "p">>
W_UP == <<"U", "P">>
W_Her == <<"H", "e", "r">>
W_Tom == <<"T", "o", "m">>
SP == <<" ">>

W_Unknown == <<"U", "n", "k", "n", "o", "w", "n">>
W_Action == <<"A", "c", "t", "i", "o", "n">>
W_Comedy == <<"C", "o", "m", "e", "d", "y">>
W_comedy == <<"c", "o", "m", "e", "d", "y">>
W_date == <<"2", "0", "0", "9", "-", "0", "5", "-", "2", "9">>
W_key == <<"k", "e", "y">>
W_jpg == <<"/", "p", ".", "j", "p", "g">>

(***************************************************************************)
(* Bounds, and the users the transport delivers updates from.              *)
(***************************************************************************)
\* The largest number of movies the catalog service answers with.
MaxResults == 6

Users == {1, 2}

(***************************************************************************)
(* State.                                                                  *)
(*   user_data      context.user_data of each user: a dict that holds the  *)
(*                  key "state" while a prompt is pending                  *)
(*   favorites_file the content of favorites.json: user id -> titles       *)
(*   file_state     whether favorites.json can be read: "ok", "missing" or *)
(*                  "corrupt" (present, but json.load fails on it)         *)
(*   GENRES         the genre table loaded at startup                      *)
(*   update         the update being processed, and `status` its progress  *)
(*   answered, sent, calls, tmdb_calls, store_calls, log, raised, branch   *)
(*                  what the handler of the update did: the callback query *)
(*                  answered, messages sent or edited, command handlers    *)
(*                  invoked with their args,                               *)
(*                  catalog requests, favorites file accesses, log records,*)
(*                  an exception leaving the handler, and the branch       *)
(*                  text_message_handler took                              *)
(*   before         the user_data the user of the update had when its      *)
(*                  handler started (a history variable)                   *)
(*   tasks          the handler coroutines of updates handled concurrently:*)
(*                  each with its update, the await it is suspended at,    *)
(*                  and what it did so far                                 *)
(***************************************************************************)
VARIABLES user_data, favorites_file, file_state, GENRES, update, status,
          answered, sent, calls, tmdb_calls, store_calls, log, raised, branch,
          before, tasks

vars == <<user_data, favorites_file, file_state, GENRES, update, status,
          answered, sent, calls, tmdb_calls, store_calls, log, raised, branch,
          before, tasks>>

(***************************************************************************)
(* What a handler does besides changing user_data and the favorites file.  *)
(***************************************************************************)
NoEffect ==
    [answered |-> FALSE, sent |-> <<>>, calls |-> <<>>, tmdb |-> <<>>,
     store |-> <<>>, log |-> <<>>, raised |-> FALSE]

\* e1, then e2 unless e1 raised
Then(e1, e2) ==
    IF e1.raised THEN e1
    ELSE [answered |-> e1.answered \/ e2.answered,
          sent |-> e1.sent \o e2.sent, calls |-> e1.calls \o e2.calls,
          tmdb |-> e1.tmdb \o e2.tmdb, store |-> e1.store \o e2.store,
          log |-> e1.log \o e2.log, raised |-> e2.raised]

NoMarkup == [type |-> "None"]

Label(fmt) == [fmt |-> fmt, args |-> <<>>]

\* f"{prefix}_{target}"
CallbackData(prefix, target) == prefix \o <<"_">> \o target

InlineKeyboardButton(text, callback_data) ==
    [text |-> text, callback_data |-> callback_data]

InlineKeyboardMarkup(keyboard) ==
    [type |-> "InlineKeyboardMarkup", inline_keyboard |-> keyboard]

MenuButton == InlineKeyboardButton(Label("Menu"), CallbackData(P_menu, P_menu))

\* await <message>.reply_text(text, reply_markup) / await query.edit_message_text(...)
Send(method, fmt, args, reply_markup) ==
    [NoEffect EXCEPT !.sent =
        <<[method |-> method, text |-> fmt, args |-> args,
           reply_markup |-> reply_markup]>>]

Logged(level, msg) == [NoEffect EXCEPT !.log = <<[level |-> level, msg |-> msg]>>]

Invoked(handler, args) ==
    [NoEffect EXCEPT !.calls = <<[handler |-> handler, args |-> args]>>]

(***************************************************************************)
(* The catalog service: the JSON bodies it can answer a request with.      *)
(***************************************************************************)
Movie(i) ==
    CASE i % 3 = 1 -> [id |-> i, title |-> W_Up, release_date |-> W_date]
      [] i % 3 = 2 -> [id |-> i, title |-> W_UP]
      [] OTHER     -> [id |-> i, title |-> W_Her, release_date |-> <<>>]

\* n movies, in the order the service ranks them
Results(n) == [k \in 1..n |-> Movie(n + 1 - k)]

Person(n) ==
    [name |-> W_Tom, known_for |-> Results(n), profile_path |-> W_jpg]

HttpOk(endpoint, param) ==
    CASE endpoint \in {"search/movie", "trending/movie/day", "discover/movie"} ->
            {[results |-> Results(n)] : n \in 0..MaxResults}
      [] endpoint = "movie/{movie_id}" ->
            {Movie(i) : i \in {k \in 1..MaxResults : Str(k) = param}}
      [] endpoint = "movie/{movie_id}/videos" ->
            {[results |-> <<>>],
             [results |-> <<[site |-> "YouTube", type |-> "Trailer", key |-> W_key]>>]}
      [] endpoint = "movie/{movie_id}/credits" ->
            {[cast |-> [k \in 1..n |-> [name |-> W_Tom]]] : n \in {0, MaxResults}}
      [] endpoint = "search/person" ->
            {[results |-> <<>>], [results |-> <<Person(0)>>],
             [results |-> <<Person(MaxResults)>>]}
      [] endpoint = "genre/movie/list" ->
            {[genres |-> <<[id |-> 28, name |-> W_Action],
                           [id |-> 35, name |-> W_Comedy]>>]}
      [] OTHER -> {}

\* the same without the try/except: the RequestException leaves tmdb_request
tmdb_request_Unguarded(endpoint, param) ==
    LET call(ok, json) ==
            [NoEffect EXCEPT !.tmdb = <<[endpoint |-> endpoint, param |-> param,
                                         ok |-> ok, json |-> json]>>]
    IN  {[data |-> json, eff |-> call(TRUE, json)] : json \in HttpOk(endpoint, param)}
        \cup {[data |-> <<>>, eff |-> [call(FALSE, <<>>) EXCEPT !.raised = TRUE]]}

\* requests.get raises RequestException (no connection, or an HTTP error status
\* through raise_for_status), which tmdb_request logs and answers with {}
tmdb_request(endpoint, param) ==
    LET call(ok, json) ==
            [NoEffect EXCEPT !.tmdb = <<[endpoint |-> endpoint, param |-> param,
                                         ok |-> ok, json |-> json]>>]
    IN  {[data |-> json, eff |-> call(TRUE, json)] : json \in HttpOk(endpoint, param)}
        \cup {[data |-> <<>>,
               eff |-> Then(call(FALSE, <<>>),
                            Logged("error", "Error in TMDb request"))]}

\* GENRES is a dict in insertion order: a sequence of (name, id) items
DictKeys(d) == [k \in 1..Len(d) |-> d[k].key]
DictHas(d, key) == \E k \in 1..Len(d) : d[k].key = key
DictGet(d, key) == d[CHOOSE k \in 1..Len(d) : d[k].key = key].value

\* the table load_genres can return at startup: {} when the request failed
load_genres ==
    {LET genres == Get(r.data, "genres", <<>>)
     IN  [k \in 1..Len(genres) |->
            [key |-> Lower(genres[k].name), value |-> genres[k].id]]
     : r \in tmdb_request("genre/movie/list", <<>>)}

(***************************************************************************)
(* The favorites file.                                                     *)
(***************************************************************************)
\* json.load of the file: FileNotFoundError is answered with {}; any other
\* failure (json.load on a file that holds no JSON document) leaves the function
load_favorites(file) ==
    [favorites |-> IF file_state = "ok" THEN file ELSE <<>>,
     eff |-> [NoEffect EXCEPT !.store = <<"load">>,
                              !.raised = (file_state = "corrupt")]]

\* json.dump: the file holds what was passed
save_favorites(favorites) == favorites

(***************************************************************************)
(* Keyboards.                                                              *)
(***************************************************************************)
create_movie_keyboard(movies, callback_prefix) ==
    LET shown == Take(movies, 5)
        release_year(movie) ==
            IF Get(movie, "release_date", <<>>) # <<>>
            THEN Take(Get(movie, "release_date", W_Unknown), 4)
            ELSE W_Unknown
        button(movie) ==
            InlineKeyboardButton(
                [fmt |-> "{movie_title} ({release_year})",
                 args |-> <<movie.title, release_year(movie)>>],
                CallbackData(callback_prefix, Str(movie.id)))
    IN  InlineKeyboardMarkup(
            [k \in 1..Len(shown) |-> <<button(shown[k])>>] \o <<<<MenuButton>>>>)

create_main_menu ==
    InlineKeyboardMarkup(<<
        <<InlineKeyboardButton(Label("Cari Film"), CallbackData(P_menu, W_search)),
          InlineKeyboardButton(Label("Cari Aktor"), CallbackData(P_menu, W_actor))>>,
        <<InlineKeyboardButton(Label("Film Trending"), CallbackData(P_menu, P_trending)),
          InlineKeyboardButton(Label("Genre Film"), CallbackData(P_menu, W_genres))>>,
        <<InlineKeyboardButton(Label("Tambah Favorit"), CallbackData(P_menu, W_favorite)),
          InlineKeyboardButton(Label("List Favorit"), CallbackData(P_menu, P_favorites))>>,
        <<InlineKeyboardButton(Label("Cari Bioskop"), CallbackData(P_menu, P_cinema)),
          InlineKeyboardButton(Label("Menu"), CallbackData(P_menu, P_menu))>>,
        <<InlineKeyboardButton(Label("Bantuan"), CallbackData(P_menu, P_help))>> >>)

create_error_keyboard == InlineKeyboardMarkup(<< <<MenuButton>> >>)

\* the ReplyKeyboardMarkup asking for the user's location
LocationKeyboard ==
    [type |-> "ReplyKeyboardMarkup",
     keyboard |-> << <<[text |-> Label("Kirim Lokasi"), request_location |-> TRUE]>> >>]

ReplyKeyboardRemove == [type |-> "ReplyKeyboardRemove"]

(***************************************************************************)
(* Command handlers.  Each is the set of effects the handler can have,     *)
(* one per answer of the catalog service.                                  *)
(***************************************************************************)
\* await query.answer()
Answer == [NoEffect EXCEPT !.answered = TRUE]

\* the message object a handler replies to: query.message for a callback query
ReplyVia(upd) ==
    IF upd.kind = "callback_query" THEN "query.message.reply_text"
    ELSE "message.reply_text"

start(upd) ==
    {Then(Invoked("start", <<>>),
          Send("message.reply_text", "Selamat datang di Movie Search Bot!", <<>>,
               create_main_menu))}

help_command(upd) ==
    {Then(Invoked("help_command", <<>>),
     Then(Logged("info", "Processing help_command"),
          Send(ReplyVia(upd), "Panduan Menu Movie Search Bot", <<>>,
               create_error_keyboard)))}

search_movie_by_title(title) ==
    {[movies |-> Get(r.data, "results", <<>>), eff |-> r.eff]
     : r \in tmdb_request("search/movie", title)}

search_movie(args) ==
    LET query == Join(args, SP)
    IN  IF query = <<>>
        THEN {Then(Invoked("search_movie", args),
                   Send("message.reply_text",
                        "Please enter a movie title after /search.", <<>>,
                        create_error_keyboard))}
        ELSE {Then(Invoked("search_movie", args),
              Then(r.eff,
                   IF r.movies = <<>>
                   THEN Send("message.reply_text", "No movies found for '{query}'.",
                             <<query>>, create_error_keyboard)
                   ELSE Send("message.reply_text", "Movies found:", <<>>,
                             create_movie_keyboard(r.movies, W_detail))))
              : r \in search_movie_by_title(query)}

get_movie_details(movie_id) == tmdb_request("movie/{movie_id}", movie_id)

get_movie_trailer(movie_id) ==
    {LET videos == Get(r.data, "results", <<>>)
         hits == {k \in 1..Len(videos) :
                    videos[k].site = "YouTube" /\ videos[k].type = "Trailer"}
     IN  [url |-> IF hits = {} THEN <<>>
                  ELSE videos[CHOOSE k \in hits : \A j \in hits : k <= j].key,
          eff |-> r.eff]
     : r \in tmdb_request("movie/{movie_id}/videos", movie_id)}

get_movie_cast(movie_id) ==
    {[cast |-> Take(Get(r.data, "cast", <<>>), 5), eff |-> r.eff]
     : r \in tmdb_request("movie/{movie_id}/credits", movie_id)}

\* query.data.split("_")[0]: the prefix in place of the target
CallbackTarget_Prefix(data) == SplitOn(data, "_")[1]

\* query.data.split("_")[1]
CallbackTarget(data) == SplitOn(data, "_")[2]

show_movie_details(upd) ==
    LET movie_id == CallbackTarget(upd.data)
        details(movie, t, c) ==
            Send("query.edit_message_text", "{title} ... {cast_list}{trailer_info}",
                 <<Get(movie, "title", <<"N", "/", "A">>),
                   Get(movie, "release_date", <<"N", "/", "A">>),
                   Join([k \in 1..Len(c.cast) |-> c.cast[k].name], <<",", " ">>),
                   t.url>>,
                 create_error_keyboard)
    IN  UNION {
          IF m.data = <<>>
          THEN {Then(Answer, Then(m.eff,
                     Send("query.edit_message_text", "Movie details not found.", <<>>,
                          create_error_keyboard)))}
          ELSE {Then(Answer, Then(m.eff, Then(t.eff, Then(c.eff,
                     details(m.data, t, c)))))
                : t \in get_movie_trailer(movie_id), c \in get_movie_cast(movie_id)}
          : m \in get_movie_details(movie_id)}

search_actor(args) ==
    LET query == Join(args, SP)
    IN  IF query = <<>>
        THEN {Then(Invoked("search_actor", args),
                   Send("message.reply_text",
                        "Masukkan nama aktor/aktris setelah /actor.", <<>>,
                        create_error_keyboard))}
        ELSE {LET actors == Get(r.data, "results", <<>>)
              IN  Then(Invoked("search_actor", args),
                  Then(r.eff,
                       IF actors = <<>>
                       THEN Send("message.reply_text",
                                 "Tidak ada aktor/aktris ditemukan untuk '{query}'.",
                                 <<query>>, create_error_keyboard)
                       ELSE Then(Send("message.reply_text", "{name} Foto: {profile_url}",
                                      <<actors[1].name,
                                        Get(actors[1], "profile_path", <<>>)>>,
                                      NoMarkup),
                                 Send("message.reply_text",
                                      "Movies starring this actor/actress:", <<>>,
                                      create_movie_keyboard(actors[1].known_for,
                                                            W_detail)))))
              : r \in tmdb_request("search/person", query)}

get_movies_by_genre(genre_id) ==
    {[movies |-> Get(r.data, "results", <<>>), eff |-> r.eff]
     : r \in tmdb_request("discover/movie", Str(genre_id))}

recommend_movie_by_genre(args, genres) ==
    LET genre_name == Lower(Join(args, SP))
    IN  IF genre_name = <<>>
        THEN {Then(Invoked("recommend_movie_by_genre", args),
                   Send("message.reply_text",
                        "Please enter a genre name after /genre.", <<>>,
                        create_error_keyboard))}
        ELSE IF ~DictHas(genres, genre_name)
        THEN {Then(Invoked("recommend_movie_by_genre", args),
                   Send("message.reply_text", "Genre '{genre_name}' not found.",
                        <<genre_name>>, create_error_keyboard))}
        ELSE {Then(Invoked("recommend_movie_by_genre", args),
              Then(r.eff,
                   IF r.movies = <<>>
                   THEN Send("message.reply_text",
                             "No movie recommendations available for genre '{genre_name}'.",
                             <<genre_name>>, create_error_keyboard)
                   ELSE Send("message.reply_text",
                             "Movie recommendations for genre '{genre_name.capitalize()}':",
                             <<Capitalize(genre_name)>>,
                             create_movie_keyboard(r.movies, W_detail))))
              : r \in get_movies_by_genre(DictGet(genres, genre_name))}

trending_movies(upd) ==
    {LET movies == Get(r.data, "results", <<>>)
     IN  Then(Invoked("trending_movies", <<>>),
         Then(r.eff,
              IF movies = <<>>
              THEN Send("message.reply_text", "Tidak ada film tren saat ini.", <<>>,
                        create_error_keyboard)
              ELSE Send("message.reply_text", "Film yang sedang tren:", <<>>,
                        create_movie_keyboard(movies, W_detail))))
     : r \in tmdb_request("trending/movie/day", <<>>)}

add_favorite(args) ==
    LET query == Join(args, SP)
    IN  IF query = <<>>
        THEN {Then(Invoked("add_favorite", args),
                   Send("message.reply_text",
                        "Please enter a movie title after /favorite.", <<>>,
                        create_error_keyboard))}
        ELSE {Then(Invoked("add_favorite", args),
              Then(r.eff,
                   IF r.movies = <<>>
                   THEN Send("message.reply_text", "No movies found for '{query}'.",
                             <<query>>, create_error_keyboard)
                   ELSE Send("message.reply_text", "Select the movie you want to save:",
                             <<>>, create_movie_keyboard(r.movies, W_save))))
              : r \in search_movie_by_title(query)}

\* d.get(key) in place of d.pop(key): the key stays
Pop_KeepsKey(d, key) == d

\* d.pop(key): the dict without the key
Pop(d, key) == [k \in DOMAIN d \ {key} |-> d[k]]

\* d[key] = value
Put(d, key, value) == [k \in DOMAIN d \cup {key} |-> IF k = key THEN value ELSE d[k]]

StoreAccess(op) == [NoEffect EXCEPT !.store = <<op>>]

\* the membership test left out: every save appends
AlreadyFavorite_Never(mine, movie_title) == FALSE

\* the comparison without .lower()
AlreadyFavorite_CaseSensitive(mine, movie_title) ==
    \E k \in 1..Len(mine) : mine[k] = movie_title

\* movie_title.lower() in [fav.lower() for fav in favorites[user_id]]
AlreadyFavorite(mine, movie_title) ==
    \E k \in 1..Len(mine) : Lower(mine[k]) = Lower(movie_title)

\* each result: the effect, and the content of the favorites file afterwards
save_favorite_movie(upd, file) ==
    {LET movie == m.data
         movie_title == Get(movie, "title", W_Unknown)
         l == load_favorites(file)
         loaded == l.favorites
         user_id == Str(upd.user)
         favorites == IF user_id \in DOMAIN loaded THEN loaded
                      ELSE Put(loaded, user_id, <<>>)
         mine == favorites[user_id]
     IN  IF movie = <<>>
         THEN [eff |-> Then(Answer, Then(m.eff,
                        Send("query.edit_message_text", "No movie details found.", <<>>,
                             create_error_keyboard))),
               file |-> file]
         ELSE IF l.eff.raised
         THEN [eff |-> Then(Answer, Then(m.eff, l.eff)), file |-> file]
         ELSE IF AlreadyFavorite(mine, movie_title)
         THEN [eff |-> Then(Answer, Then(m.eff, Then(l.eff,
                        Send("query.edit_message_text",
                             "'{movie_title}' sudah ada di daftar favorit Anda.",
                             <<movie_title>>, create_error_keyboard)))),
               file |-> file]
         ELSE [eff |-> Then(Answer, Then(m.eff, Then(l.eff,
                       Then(StoreAccess("save"),
                        Send("query.edit_message_text",
                             "'{movie_title}' telah ditambahkan ke daftar favorit Anda.",
                             <<movie_title>>, create_error_keyboard))))),
               file |-> save_favorites(
                            Put(favorites, user_id, Append(mine, movie_title)))]
     : m \in get_movie_details(CallbackTarget(upd.data))}

view_favorites(upd, file) ==
    LET l == load_favorites(file)
        favorites == l.favorites
        user_id == Str(upd.user)
    IN  {Then(Invoked("view_favorites", <<>>),
         Then(l.eff,
              IF user_id \notin DOMAIN favorites \/ favorites[user_id] = <<>>
              THEN Send("message.reply_text", "Anda belum memiliki film favorit.", <<>>,
                        create_error_keyboard)
              ELSE Send("message.reply_text", "Daftar film favorit Anda:",
                        favorites[user_id], create_error_keyboard)))}

minta_lokasi_bioskop(upd) ==
    {Then(Invoked("minta_lokasi_bioskop", <<>>),
          Send("message.reply_text",
               "Silakan kirim lokasi kamu untuk mencari bioskop terdekat:", <<>>,
               LocationKeyboard))}

bioskop_terdekat(upd) ==
    IF upd.location = <<>>
    THEN {Send("message.reply_text", "Silakan kirim lokasi kamu terlebih dahulu.", <<>>,
               create_error_keyboard)}
    ELSE {Send("message.reply_text", "Berikut link bioskop terdekat: {link_maps}",
               <<Str(upd.location[1]), Str(upd.location[2])>>, ReplyKeyboardRemove)}

(***************************************************************************)
(* Button handlers.                                                        *)
(***************************************************************************)
\* try: body / except Exception: log it and send the error message
Except(body, handler_name) ==
    IF body.raised
    THEN Then([body EXCEPT !.raised = FALSE],
         Then(Logged("error", handler_name),
              Send("query.message.reply_text", "Terjadi kesalahan. Silakan coba lagi.",
                   <<>>, create_error_keyboard)))
    ELSE body

\* the keyboard of the first 10 genres, two to a row, and the way back
GenreKeyboard(genres) ==
    LET genres_list == Take(DictKeys(genres), 10)
        n == Len(genres_list)
        button(k) == InlineKeyboardButton(
                        [fmt |-> "{genre}", args |-> <<Capitalize(genres_list[k])>>],
                        CallbackData(P_genre, genres_list[k]))
        row(j) == IF 2 * j <= n THEN <<button(2 * j - 1), button(2 * j)>>
                  ELSE <<button(2 * j - 1)>>
    IN  InlineKeyboardMarkup(
            [j \in 1..((n + 1) \div 2) |-> row(j)]
            \o << <<InlineKeyboardButton(Label("Kembali"),
                                         CallbackData(P_menu, W_main))>> >>)

\* context.user_data.setdefault('state', state): a pending state is kept
SetState_KeepsFirst(ud, state) ==
    IF "state" \in DOMAIN ud THEN ud ELSE Put(ud, "state", state)

\* the prompt is sent but the state is not stored
SetState_Omitted(ud, state) == ud

\* context.user_data['state'] = state
SetState(ud, state) == Put(ud, "state", state)

\* each result: the effect, and the user's user_data afterwards
handle_menu_button(upd, ud, file, genres) ==
    LET action == CallbackTarget(upd.data)
        begin == Then(Answer, Logged("info", "Handling menu button with action"))
        prompt(state, fmt) ==
            {[eff |-> Then(begin, Send("query.message.reply_text", fmt, <<>>, NoMarkup)),
              user_data |-> SetState(ud, state)]}
        same(effects) ==
            {[eff |-> Then(begin, Except(e, "Error in handle_menu_button")),
              user_data |-> ud] : e \in effects}
    IN  IF action = W_search
        THEN prompt("search", "Ketik judul film yang ingin dicari:")
        ELSE IF action = W_actor
        THEN prompt("actor", "Ketik nama aktor/aktris:")
        ELSE IF action = W_favorite
        THEN prompt("favorite", "Ketik judul film yang ingin ditambahkan ke favorit:")
        ELSE IF action = P_trending
        THEN same({LET movies == Get(r.data, "results", <<>>)
                   IN  Then(r.eff,
                            IF movies = <<>>
                            THEN Send("query.message.reply_text",
                                      "Tidak ada film tren saat ini.", <<>>,
                                      create_error_keyboard)
                            ELSE Send("query.message.reply_text",
                                      "Film yang sedang tren:", <<>>,
                                      create_movie_keyboard(movies, W_detail)))
                   : r \in tmdb_request("trending/movie/day", <<>>)})
        ELSE IF action = W_genres
        THEN same({Send("query.message.reply_text", "Pilih genre:", <<>>,
                        GenreKeyboard(genres))})
        ELSE IF action = P_favorites
        THEN same({LET user_id == Str(upd.user)
                       l == load_favorites(file)
                       favorites == l.favorites
                   IN  Then(l.eff,
                            IF user_id \notin DOMAIN favorites
                               \/ favorites[user_id] = <<>>
                            THEN Send("query.message.reply_text",
                                      "Anda belum memiliki film favorit.", <<>>,
                                      create_error_keyboard)
                            ELSE Send("query.message.reply_text",
                                      "Daftar favorit Anda:", favorites[user_id],
                                      create_error_keyboard))})
        ELSE IF action = P_cinema
        THEN same({Send("query.message.reply_text", "Silakan kirim lokasi Anda:", <<>>,
                        LocationKeyboard)})
        ELSE IF action = P_menu
        THEN same({Send("query.message.reply_text",
                        "Selamat datang di Movie Search Bot!", <<>>, create_main_menu)})
        ELSE IF action = W_main
        THEN same({Send("query.message.reply_text", "Pilih menu:", <<>>,
                        create_main_menu)})
        ELSE IF action = P_help
        THEN same(help_command(upd))
        ELSE same({Then(Logged("warning", "Unknown action"),
                        Send("query.message.reply_text", "Perintah tidak dikenali.",
                             <<>>, create_error_keyboard))})

handle_genre_button(upd, genres) ==
    LET genre_name == CallbackTarget(upd.data)
    IN  IF ~DictHas(genres, genre_name)
        THEN {Then(Answer,
                   Send("query.message.reply_text", "Genre '{genre_name}' not found.",
                        <<genre_name>>, create_error_keyboard))}
        ELSE {Then(Answer, Then(r.eff,
                   IF r.movies = <<>>
                   THEN Send("query.message.reply_text",
                             "No movie recommendations available for genre '{genre_name}'.",
                             <<genre_name>>, create_error_keyboard)
                   ELSE Send("query.message.reply_text",
                             "Movie recommendations for genre '{genre_name.capitalize()}':",
                             <<Capitalize(genre_name)>>,
                             create_movie_keyboard(r.movies, W_detail))))
              : r \in get_movies_by_genre(DictGet(genres, genre_name))}

(***************************************************************************)
(* The text message handler: a pending state consumes the text; with none  *)
(* pending the text is matched against the phrases.                        *)
(***************************************************************************)
\* the genre branch placed after the favorites branch
WantsGenre_AfterFavorites(text) ==
    /\ Contains(text, P_genre)
    /\ ~(Contains(text, P_favorit) \/ Contains(text, P_favorites))

\* the conditions of the if/elif chain, in its order
WantsSearch(text) == Contains(text, P_cari_film) \/ Contains(text, P_search_movie)
WantsActor(text) == Contains(text, P_cari_aktor) \/ Contains(text, P_search_actor)
WantsTrending(text) == Contains(text, P_trending) \/ Contains(text, P_film_populer)
WantsGenre(text) == Contains(text, P_genre)
WantsFavorites(text) == Contains(text, P_favorit) \/ Contains(text, P_favorites)
WantsToAdd(text) == Contains(text, P_tambah) \/ Contains(text, P_add)
WantsCinema(text) == Contains(text, P_bioskop) \/ Contains(text, P_cinema)
WantsHelp(text) == Contains(text, P_bantuan) \/ Contains(text, P_help)
WantsMenu(text) == Contains(text, P_menu) \/ Contains(text, P_start)

\* each result: the effect, the user's user_data afterwards, the branch taken
text_message_handler(upd, ud, file, genres) ==
    LET text == Lower(upd.text)
        reply(fmt) == Send("message.reply_text", fmt, <<>>, create_error_keyboard)
        out(effects, after, taken) ==
            {[eff |-> e, user_data |-> after, branch |-> taken] : e \in effects}
    IN  IF "state" \in DOMAIN ud
        THEN LET state == ud["state"]
                 popped == Pop(ud, "state")
                 query == Strip(text)
             IN  IF state = "search"
                 THEN out(IF query # <<>> THEN search_movie(Split(query))
                          ELSE {reply("Judul film tidak boleh kosong.")},
                          popped, "state")
                 ELSE IF state = "actor"
                 THEN out(IF query # <<>> THEN search_actor(Split(query))
                          ELSE {reply("Nama aktor tidak boleh kosong.")},
                          popped, "state")
                 ELSE IF state = "favorite"
                 THEN out(IF query # <<>> THEN add_favorite(Split(query))
                          ELSE {reply("Judul film tidak boleh kosong.")},
                          popped, "state")
                 ELSE out({NoEffect}, popped, "state")
        ELSE IF WantsSearch(text)
        THEN LET query == Strip(Remove(Remove(text, P_cari_film), P_search_movie))
             IN  out(IF query # <<>> THEN search_movie(Split(query))
                     ELSE {reply("Silakan masukkan judul film yang ingin dicari.")},
                     ud, "intent")
        ELSE IF WantsActor(text)
        THEN LET query == Strip(Remove(Remove(text, P_cari_aktor), P_search_actor))
             IN  out(IF query # <<>> THEN search_actor(Split(query))
                     ELSE {reply("Ketik nama aktor atau aktris.")},
                     ud, "intent")
        ELSE IF WantsTrending(text)
        THEN out(trending_movies(upd), ud, "intent")
        ELSE IF WantsGenre(text)
        THEN LET genre_name == Strip(Remove(text, P_genre))
             IN  out(IF genre_name # <<>>
                     THEN recommend_movie_by_genre(Split(genre_name), genres)
                     ELSE {Send("message.reply_text",
                                "Silakan tentukan genre film: ... Genre yang tersedia: {genres_text}",
                                <<Join([k \in 1..Len(Take(DictKeys(genres), 10)) |->
                                            Capitalize(DictKeys(genres)[k])],
                                       <<",", " ">>)>>,
                                create_error_keyboard)},
                     ud, "intent")
        ELSE IF WantsFavorites(text)
        THEN IF WantsToAdd(text)
             THEN LET query == Strip(Remove(Remove(text, P_tambah_favorit),
                                            P_add_to_favorites))
                  IN  out(IF query # <<>> THEN add_favorite(Split(query))
                          ELSE {reply("Ketik judul film untuk favorit.")},
                          ud, "intent")
             ELSE out(view_favorites(upd, file), ud, "intent")
        ELSE IF WantsCinema(text)
        THEN out(minta_lokasi_bioskop(upd), ud, "intent")
        ELSE IF WantsHelp(text)
        THEN out(help_command(upd), ud, "intent")
        ELSE IF WantsMenu(text)
        THEN out(start(upd), ud, "intent")
        ELSE out({Send("message.reply_text",
                       "Saya tidak mengerti permintaan Anda. Silakan pilih dari menu di bawah:",
                       <<>>, create_main_menu)},
                 ud, "intent")

(***************************************************************************)
(* Updates: what the transport delivers.                                   *)
(***************************************************************************)
NoUpdate ==
    [kind |-> "none", user |-> 0, text |-> <<>>, data |-> <<>>, location |-> <<>>]

TextUpdate(u, text) ==
    [kind |-> "message", user |-> u, text |-> text, data |-> <<>>, location |-> <<>>]

CallbackUpdate(u, data) ==
    [kind |-> "callback_query", user |-> u, text |-> <<>>, data |-> data,
     location |-> <<>>]

LocationUpdate(u) ==
    [kind |-> "message", user |-> u, text |-> <<>>, data |-> <<>>,
     location |-> <<6, 106>>]

\* plain texts: titles, blanks, and phrases of the intent table
Texts ==
    {W_up,
     W_Up,
     W_Tom \o <<" ", " ">> \o W_Up,
     <<" ">>,
     <<" ", "\t">>,
     P_trending,
     P_genre \o SP \o W_action,
     <<" ">> \o P_genre \o <<" ">>,
     P_genre \o SP \o W_horror,
     P_cari_film \o SP \o W_Up,
     P_cari_film,
     P_search_movie \o SP \o W_up,
     P_cari_aktor \o SP \o W_tom,
     P_search_actor \o <<" ">>,
     P_film_populer,
     P_cari_film \o SP \o P_trending,
     P_genre \o SP \o P_favorit,
     P_favorit,
     P_tambah_favorit \o SP \o W_up,
     P_tambah_favorit,
     P_add \o SP \o P_favorites,
     P_bioskop,
     P_help \o SP \o P_menu,
     P_menu}

\* slash commands, registered and not
Commands ==
    {<<"/">> \o P_start,
     <<"/">> \o P_help,
     <<"/">> \o W_search,
     <<"/">> \o W_search \o SP \o W_Tom \o <<" ", " ">> \o W_Up,
     <<"/">> \o P_genre,
     <<"/">> \o P_genre \o SP \o W_Action,
     <<"/">> \o W_actor \o SP \o W_tom,
     <<"/">> \o P_trending,
     <<"/">> \o W_favorite \o SP \o W_up,
     <<"/">> \o P_favorites,
     <<"/">> \o W_nearest_cinema,
     <<"/">> \o W_bogus}

\* callback data of the buttons the bot renders, and stale or malformed tokens
CallbackDatas ==
    {CallbackData(P_menu, a) :
        a \in {W_search, W_actor, W_favorite, P_trending, W_genres, P_favorites,
               P_cinema, P_menu, W_main, P_help, W_bogus, <<>>}}
    \cup {CallbackData(W_detail, Str(1)), CallbackData(W_detail, Str(MaxResults + 1))}
    \cup {CallbackData(W_save, Str(i)) : i \in 1..2}
    \cup {CallbackData(P_genre, W_action), CallbackData(P_genre, W_horror)}

Updates ==
    {TextUpdate(u, t) : u \in Users, t \in Texts \cup Commands}
    \cup {CallbackUpdate(u, d) : u \in Users, d \in CallbackDatas}
    \cup {LocationUpdate(u) : u \in Users}

(***************************************************************************)
(* Dispatch: which registered handler takes an update (main_async).        *)
(***************************************************************************)
\* filters.COMMAND: the text starts with a bot command
IsCommand(upd) == upd.kind = "message" /\ upd.text # <<>> /\ upd.text[1] = "/"

\* CommandHandler(name, ...): the first word is /name; context.args are the rest
MatchesCommand(upd, name) ==
    IsCommand(upd) /\ Lower(Tail(Split(upd.text)[1])) = name

CommandArgs(upd) == Tail(Split(upd.text))

\* CallbackQueryHandler(..., pattern=r"^prefix_"): re.match on the data
MatchesPrefix(upd, prefix) ==
    upd.kind = "callback_query" /\ StartsWithAt(upd.data, prefix \o <<"_">>, 1)

\* pattern=r"^prefix_\d+": at least one digit after the prefix
MatchesPrefixDigits(upd, prefix) ==
    /\ MatchesPrefix(upd, prefix)
    /\ Len(upd.data) > Len(prefix) + 1
    /\ IsDigits(<<upd.data[Len(prefix) + 2]>>)

RegisteredCommands ==
    {P_start, P_help, W_search, P_genre, W_actor, P_trending, W_favorite,
     P_favorites, W_nearest_cinema}

(***************************************************************************)
(* Handler coroutines of updates that are handled concurrently.            *)
(***************************************************************************)
\* The number of updates handled concurrently.
MaxTasks == 3

Tasks == 1..MaxTasks

\* no coroutine: the slot is free
NoTask ==
    [update |-> NoUpdate, pc |-> "idle", seen |-> <<>>, reported |-> <<>>,
     calls |-> <<>>, branch |-> "none", raised |-> FALSE]

Init ==
    /\ user_data = [u \in Users |-> <<>>]
    /\ favorites_file = <<>>
    /\ file_state = "ok"
    /\ GENRES \in load_genres
    /\ update = NoUpdate
    /\ status = "idle"
    /\ answered = FALSE
    /\ sent = <<>>
    /\ calls = <<>>
    /\ tmdb_calls = <<>>
    /\ store_calls = <<>>
    /\ log = <<>>
    /\ raised = FALSE
    /\ branch = "none"
    /\ before = <<>>
    /\ tasks = [t \in Tasks |-> NoTask]

\* the updater hands the next update, one of `updates`, to the application
PollFrom(updates) ==
    /\ status = "idle"
    /\ update' \in updates
    /\ status' = "queued"
    /\ UNCHANGED <<user_data, favorites_file, file_state, GENRES, answered, sent,
                   calls, tmdb_calls, store_calls, log, raised, branch, before,
                   tasks>>

Poll == PollFrom(Updates)

\* save_favorites ran: open(FAVORITES_FILE, "w") leaves a readable file
Saved(e) == \E k \in 1..Len(e.store) : e.store[k] = "save"

\* the same with one dict for every user (context.bot_data in place of
\* context.user_data)
Handled_SharedUserData(e, ud, file, taken) ==
    /\ status' = "done"
    /\ user_data' = [u \in Users |-> ud]
    /\ favorites_file' = file
    /\ file_state' = IF Saved(e) THEN "ok" ELSE file_state
    /\ before' = user_data[update.user]
    /\ answered' = e.answered
    /\ sent' = e.sent
    /\ calls' = e.calls
    /\ tmdb_calls' = e.tmdb
    /\ store_calls' = e.store
    /\ log' = e.log
    /\ raised' = e.raised
    /\ branch' = taken
    /\ UNCHANGED <<GENRES, update, tasks>>

\* the handler of the update has run: its effect, the user's user_data and the
\* favorites file afterwards
Handled(e, ud, file, taken) ==
    /\ status' = "done"
    /\ user_data' = [user_data EXCEPT ![update.user] = ud]
    /\ favorites_file' = file
    /\ file_state' = IF Saved(e) THEN "ok" ELSE file_state
    /\ before' = user_data[update.user]
    /\ answered' = e.answered
    /\ sent' = e.sent
    /\ calls' = e.calls
    /\ tmdb_calls' = e.tmdb
    /\ store_calls' = e.store
    /\ log' = e.log
    /\ raised' = e.raised
    /\ branch' = taken
    /\ UNCHANGED <<GENRES, update, tasks>>

\* the same with context.user_data.clear() at the end of the handler
HandledBy_ClearsUserData(effects) ==
    \E e \in effects : Handled(e, <<>>, favorites_file, "none")

\* a handler that touches neither user_data nor the favorites file
HandledBy(effects) ==
    \E e \in effects :
        Handled(e, user_data[update.user], favorites_file, "none")

Handle_start ==
    /\ status = "queued" /\ MatchesCommand(update, P_start)
    /\ HandledBy(start(update))

Handle_help ==
    /\ status = "queued" /\ MatchesCommand(update, P_help)
    /\ HandledBy(help_command(update))

Handle_search ==
    /\ status = "queued" /\ MatchesCommand(update, W_search)
    /\ HandledBy(search_movie(CommandArgs(update)))

Handle_genre ==
    /\ status = "queued" /\ MatchesCommand(update, P_genre)
    /\ HandledBy(recommend_movie_by_genre(CommandArgs(update), GENRES))

Handle_actor ==
    /\ status = "queued" /\ MatchesCommand(update, W_actor)
    /\ HandledBy(search_actor(CommandArgs(update)))

Handle_trending ==
    /\ status = "queued" /\ MatchesCommand(update, P_trending)
    /\ HandledBy(trending_movies(update))

Handle_favorite ==
    /\ status = "queued" /\ MatchesCommand(update, W_favorite)
    /\ HandledBy(add_favorite(CommandArgs(update)))

Handle_favorites ==
    /\ status = "queued" /\ MatchesCommand(update, P_favorites)
    /\ HandledBy(view_favorites(update, favorites_file))

Handle_nearest_cinema ==
    /\ status = "queued" /\ MatchesCommand(update, W_nearest_cinema)
    /\ HandledBy(minta_lokasi_bioskop(update))

Handle_detail ==
    /\ status = "queued" /\ MatchesPrefixDigits(update, W_detail)
    /\ HandledBy(show_movie_details(update))

Handle_save ==
    /\ status = "queued" /\ MatchesPrefixDigits(update, W_save)
    /\ \E r \in save_favorite_movie(update, favorites_file) :
          Handled(r.eff, user_data[update.user], r.file, "none")

Handle_menu ==
    /\ status = "queued" /\ MatchesPrefix(update, P_menu)
    /\ \E r \in handle_menu_button(update, user_data[update.user],
                                   favorites_file, GENRES) :
          Handled(r.eff, r.user_data, favorites_file, "none")

Handle_genre_button ==
    /\ status = "queued" /\ MatchesPrefix(update, P_genre)
    /\ HandledBy(handle_genre_button(update, GENRES))

Handle_location ==
    /\ status = "queued" /\ update.kind = "message" /\ update.location # <<>>
    /\ HandledBy(bioskop_terdekat(update))

Handle_text ==
    /\ status = "queued" /\ update.kind = "message" /\ update.text # <<>>
    /\ ~IsCommand(update)
    /\ \E r \in text_message_handler(update, user_data[update.user],
                                     favorites_file, GENRES) :
          Handled(r.eff, r.user_data, favorites_file, r.branch)

\* no registered handler matches: the application drops the update
Unhandled ==
    /\ status = "queued"
    /\ IsCommand(update)
    /\ \A name \in RegisteredCommands : ~MatchesCommand(update, name)
    /\ HandledBy({NoEffect})

\* the application is through with the update and takes the next one
Done ==
    /\ status = "done"
    /\ status' = "idle"
    /\ update' = NoUpdate
    /\ answered' = FALSE
    /\ sent' = <<>>
    /\ calls' = <<>>
    /\ tmdb_calls' = <<>>
    /\ store_calls' = <<>>
    /\ log' = <<>>
    /\ raised' = FALSE
    /\ branch' = "none"
    /\ before' = <<>>
    /\ UNCHANGED <<user_data, favorites_file, file_state, GENRES, tasks>>

Next ==
    \/ Poll
    \/ Handle_start
    \/ Handle_help
    \/ Handle_search
    \/ Handle_genre
    \/ Handle_actor
    \/ Handle_trending
    \/ Handle_favorite
    \/ Handle_favorites
    \/ Handle_nearest_cinema
    \/ Handle_detail
    \/ Handle_save
    \/ Handle_menu
    \/ Handle_genre_button
    \/ Handle_location
    \/ Handle_text
    \/ Unhandled
    \/ Done

Spec == Init /\ [][Next]_vars

(***************************************************************************)
(* The favorites store alone: save presses and the views of the list.      *)
(***************************************************************************)
FavoriteUpdates ==
    {CallbackUpdate(u, CallbackData(W_save, Str(i))) :
        u \in Users, i \in 1..(MaxResults + 1)}
    \cup {CallbackUpdate(u, CallbackData(P_menu, P_favorites)) : u \in Users}
    \cup {TextUpdate(u, <<"/">> \o P_favorites) : u \in Users}

PollFavorites == PollFrom(FavoriteUpdates)

NextFavorites ==
    \/ PollFavorites
    \/ Handle_save
    \/ Handle_menu
    \/ Handle_favorites
    \/ Done

SpecFavorites == Init /\ [][NextFavorites]_vars

(***************************************************************************)
(* The intent matching alone: free texts made of up to MaxUnits phrases    *)
(* and words, sent with no prompt pending.                                 *)
(***************************************************************************)
MaxUnits == 2

IntentUnits ==
    {P_cari_film, P_search_movie, P_cari_aktor, P_search_actor, P_trending,
     P_film_populer, P_genre, P_favorit, P_favorites, P_tambah, P_add,
     P_add_to_favorites, P_bioskop, P_cinema, P_bantuan, P_help, P_menu, P_start,
     W_action, W_Up}

IntentTexts ==
    {Join(units, SP) : units \in UNION {[1..n -> IntentUnits] : n \in 1..MaxUnits}}

\* nothing is ever pending here, and the favorites file stays empty: one user
\* stands for all
IntentUpdates == {TextUpdate(1, t) : t \in IntentTexts}

PollIntent == PollFrom(IntentUpdates)

NextIntent ==
    \/ PollIntent
    \/ Handle_text
    \/ Done

SpecIntent == Init /\ [][NextIntent]_vars

(***************************************************************************)
(* Vocabulary of the properties.                                           *)
(***************************************************************************)
Prompts == {"search", "actor", "favorite"}

\* the pending expectation of user u: "none" when no prompt is pending
Pending(u) == IF user_data[u] = <<>> THEN "none" ELSE user_data[u].state

IsBlank(s) == \A i \in 1..Len(s) : s[i] \in {" ", "\t", "\n"}

\* a plain text message (not a command) is being, or has been, handled
IsPlainText(upd) == upd.kind = "message" /\ upd.text # <<>> /\ upd.text[1] # "/"

TextStep == status = "queued" /\ status' = "done" /\ IsPlainText(update)

PromptHandler(state) ==
    CASE state = "search" -> "search_movie"
      [] state = "actor" -> "search_actor"
      [] state = "favorite" -> "add_favorite"

\* the text without the whitespace around it
Trimmed(s) ==
    LET keep == {i \in 1..Len(s) : s[i] \notin {" ", "\t", "\n"}}
    IN  IF keep = {} THEN <<>>
        ELSE SubSeq(s, CHOOSE i \in keep : \A j \in keep : i <= j,
                       CHOOSE i \in keep : \A j \in keep : j <= i)

ErrorKeyboard ==
    [type |-> "InlineKeyboardMarkup",
     inline_keyboard |-> << <<[text |-> [fmt |-> "Menu", args |-> <<>>],
                              callback_data |->
                                <<"m", "e", "n", "u", "_", "m", "e", "n", "u">>]>> >>]

(***************************************************************************)
(* C1.  A text that answers a prompt (the user's pending state is search,  *)
(* actor or favorite, and the text is not blank) invokes the handler of    *)
(* that prompt with that text as its argument, does not go through the     *)
(* intent matching, and leaves no state pending.  The handler's argument   *)
(* is the query it joins from context.args.                                *)
(***************************************************************************)
C1_PromptedTextIsTheArgument ==
    [][(TextStep /\ Pending(update.user) \in Prompts /\ ~IsBlank(update.text))
        => /\ Len(calls') = 1
           /\ calls'[1].handler = PromptHandler(Pending(update.user))
           /\ Join(calls'[1].args, <<" ">>) = Trimmed(update.text)
           /\ branch' = "state"
           /\ user_data'[update.user] = <<>>]_vars

(***************************************************************************)
(* C2.  A blank text that answers a prompt gets the validation message of  *)
(* that prompt; no command handler is invoked, the catalog is not called,  *)
(* and no state is pending afterwards.                                     *)
(***************************************************************************)
ValidationMessage(state) ==
    CASE state = "search" -> "Judul film tidak boleh kosong."
      [] state = "actor" -> "Nama aktor tidak boleh kosong."
      [] state = "favorite" -> "Judul film tidak boleh kosong."

C2_BlankReplyIsRejected ==
    [][(TextStep /\ Pending(update.user) \in Prompts /\ IsBlank(update.text))
        => /\ Len(sent') = 1
           /\ sent'[1].text = ValidationMessage(Pending(update.user))
           /\ sent'[1].reply_markup = ErrorKeyboard
           /\ calls' = <<>>
           /\ tmdb_calls' = <<>>
           /\ ~raised'
           /\ user_data'[update.user] = <<>>]_vars

C2_Witness ==
    /\ status = "done"
    /\ update.text = <<" ", "\t">>
    /\ branch = "state"
    /\ Len(sent) = 1 /\ sent[1].text = "Nama aktor tidak boleh kosong."
    /\ user_data[update.user] = <<>>

(***************************************************************************)
(* C3.  A user's user_data holds at most one pending state, one of search, *)
(* actor and favorite; and once a plain text of a user has been handled,   *)
(* nothing is pending for that user, whatever was pending and whatever     *)
(* the text.                                                               *)
(***************************************************************************)
C3_TextClearsPending ==
    /\ \A u \in Users :
          \/ user_data[u] = <<>>
          \/ DOMAIN user_data[u] = {"state"} /\ user_data[u].state \in Prompts
    /\ (status = "done" /\ IsPlainText(update)) => user_data[update.user] = <<>>

C3_Witness ==
    /\ status = "done"
    /\ IsPlainText(update)
    /\ branch = "state"
    /\ user_data[update.user] = <<>>
    /\ \E u \in Users : user_data[u] # <<>>

(***************************************************************************)
(* C4.  With nothing pending, the menu buttons search, actor and favorite  *)
(* set the pressing user's pending state to search, actor and favorite,    *)
(* and send exactly one message, the prompt; the catalog and the favorites *)
(* file are not touched.                                                   *)
(***************************************************************************)
MenuData(action) == <<"m", "e", "n", "u", "_">> \o action

PromptMessage(state) ==
    CASE state = "search" -> "Ketik judul film yang ingin dicari:"
      [] state = "actor" -> "Ketik nama aktor/aktris:"
      [] state = "favorite" -> "Ketik judul film yang ingin ditambahkan ke favorit:"

PromptOfData(data) ==
    CASE data = MenuData(<<"s", "e", "a", "r", "c", "h">>) -> "search"
      [] data = MenuData(<<"a", "c", "t", "o", "r">>) -> "actor"
      [] data = MenuData(<<"f", "a", "v", "o", "r", "i", "t", "e">>) -> "favorite"
      [] OTHER -> "none"

CallbackStep == status = "queued" /\ status' = "done" /\ update.kind = "callback_query"

C4_MenuButtonArmsPrompt ==
    [][(CallbackStep /\ PromptOfData(update.data) # "none"
        /\ user_data[update.user] = <<>>)
        => /\ user_data' = [user_data EXCEPT ![update.user] =
                                [state |-> PromptOfData(update.data)]]
           /\ Len(sent') = 1
           /\ sent'[1].text = PromptMessage(PromptOfData(update.data))
           /\ tmdb_calls' = <<>>
           /\ store_calls' = <<>>
           /\ favorites_file' = favorites_file]_vars

C4_Witness ==
    /\ status = "done"
    /\ PromptOfData(update.data) = "favorite"
    /\ user_data[update.user] = [state |-> "favorite"]
    /\ \E u \in Users : user_data[u] = <<>>
    /\ Len(sent) = 1

(***************************************************************************)
(* C5.  A user's stored favorites never hold two titles that are equal     *)
(* ignoring case; a save press for a title that is already stored, in any  *)
(* case, reports "already present" and leaves the file as it was.  The     *)
(* title is the one the catalog answers with for the pressed movie         *)
(* ("Unknown" for an answer that carries no title).                        *)
(***************************************************************************)
SameIgnoringCase(a, b) == Lower(a) = Lower(b)

NoDuplicateFavorites(file) ==
    \A uid \in DOMAIN file :
        \A i, j \in 1..Len(file[uid]) :
            i # j => ~SameIgnoringCase(file[uid][i], file[uid][j])

SaveStep ==
    /\ CallbackStep
    /\ Len(update.data) > 5
    /\ SubSeq(update.data, 1, 5) = <<"s", "a", "v", "e", "_">>

StoredFor(file, u) == IF Str(u) \in DOMAIN file THEN file[Str(u)] ELSE <<>>

C5_NoDuplicateFavorites ==
    [][/\ NoDuplicateFavorites(favorites_file')
       /\ (SaveStep
           /\ \E k \in 1..Len(StoredFor(favorites_file, update.user)) :
                 SameIgnoringCase(StoredFor(favorites_file, update.user)[k],
                                  Get(tmdb_calls'[1].json, "title", W_Unknown)))
          => /\ Len(sent') = 1
             /\ sent'[1].text = "'{movie_title}' sudah ada di daftar favorit Anda."
             /\ favorites_file' = favorites_file]_vars

C5_Witness ==
    /\ status = "done"
    /\ update.user = 1
    /\ Len(sent) = 1
    /\ sent[1].text = "'{movie_title}' sudah ada di daftar favorit Anda."
    /\ sent[1].args = << <<"U", "P">> >>
    /\ <<"1">> \in DOMAIN favorites_file
    /\ favorites_file[<<"1">>] = << <<"H", "e", "r">>, <<"U", "p">> >>

(***************************************************************************)
(* C6.  A movie list of n movies is rendered as min(n, 5) buttons, for the *)
(* first min(n, 5) movies in their order, followed by one last row with    *)
(* the return-to-menu button.  The list is the one the catalog answered    *)
(* with (for an actor, the known_for list of the first person).            *)
(***************************************************************************)
MovieListPrefix(text) ==
    CASE text = "Select the movie you want to save:" -> <<"s", "a", "v", "e", "_">>
      [] text \in {"Movies found:", "Film yang sedang tren:",
                   "Movie recommendations for genre '{genre_name.capitalize()}':",
                   "Movies starring this actor/actress:"} ->
            <<"d", "e", "t", "a", "i", "l", "_">>
      [] OTHER -> <<>>

\* the list the keyboard of the message was made from
RenderedMovies(msg) ==
    LET json == tmdb_calls[Len(tmdb_calls)].json
    IN  IF msg.text = "Movies starring this actor/actress:"
        THEN json.results[1].known_for
        ELSE json.results

Min(a, b) == IF a < b THEN a ELSE b

RendersFirstFive(msg) ==
    LET movies == RenderedMovies(msg)
        shown == Min(Len(movies), 5)
        rows == msg.reply_markup.inline_keyboard
    IN  /\ Len(rows) = shown + 1
        /\ \A k \in 1..shown :
              /\ Len(rows[k]) = 1
              /\ rows[k][1].callback_data = MovieListPrefix(msg.text) \o Str(movies[k].id)
              /\ rows[k][1].text.args[1] = movies[k].title
        /\ rows[shown + 1] = ErrorKeyboard.inline_keyboard[1]

C6_MovieListShowsFirstFive ==
    status = "done" =>
        \A k \in 1..Len(sent) :
            MovieListPrefix(sent[k].text) # <<>> => RendersFirstFive(sent[k])

C6_Witness ==
    /\ status = "done"
    /\ Len(sent) = 1
    /\ sent[1].text = "Movies found:"
    /\ Len(tmdb_calls[1].json.results) > 5
    /\ Len(sent[1].reply_markup.inline_keyboard) = 6

(***************************************************************************)
(* C7.  A free text handled with nothing pending is answered by the first  *)
(* phrase group, in the order search, actor, trending, genre, favorites,   *)
(* cinema, help, menu, that has a phrase in the lowercased text: no        *)
(* handler of another group runs, and when the text has phrases of two or  *)
(* more groups the handler of the first one does run.  A text with no      *)
(* phrase gets the "not understood" message.                               *)
(***************************************************************************)
GroupPhrases ==
    << {P_cari_film, P_search_movie}, {P_cari_aktor, P_search_actor},
       {P_trending, P_film_populer}, {P_genre}, {P_favorit, P_favorites},
       {P_bioskop, P_cinema}, {P_bantuan, P_help}, {P_menu, P_start} >>

GroupHandlers ==
    << {"search_movie"}, {"search_actor"}, {"trending_movies"},
       {"recommend_movie_by_genre"}, {"add_favorite", "view_favorites"},
       {"minta_lokasi_bioskop"}, {"help_command"}, {"start"} >>

MatchingGroups(text) ==
    LET lowered == Lower(text)
    IN  {g \in 1..Len(GroupPhrases) : \E p \in GroupPhrases[g] : Contains(lowered, p)}

\* the least of a non-empty set of numbers
Least(S) == CHOOSE g \in S : \A h \in S : g <= h

NotUnderstood ==
    "Saya tidak mengerti permintaan Anda. Silakan pilih dari menu di bawah:"

IntentHandled == status = "done" /\ IsPlainText(update) /\ branch = "intent"

C7_FirstMatchingGroupWins ==
    IntentHandled =>
        LET matching == MatchingGroups(update.text)
        IN  IF matching = {}
            THEN calls = <<>> /\ Len(sent) = 1 /\ sent[1].text = NotUnderstood
            ELSE /\ Len(calls) <= 1
                 /\ \A k \in 1..Len(calls) :
                       calls[k].handler \in GroupHandlers[Least(matching)]
                 /\ Cardinality(matching) >= 2 => Len(calls) = 1
                 /\ \A k \in 1..Len(sent) : sent[k].text # NotUnderstood

C7_Witness ==
    /\ IntentHandled
    /\ update.text = P_genre \o <<" ">> \o P_favorit
    /\ Len(calls) = 1
    /\ calls[1].handler = "recommend_movie_by_genre"

(***************************************************************************)
(* C8.  A free text handled with nothing pending whose first group is      *)
(* search, actor or genre, and which is blank once the phrases of that     *)
(* group are removed, gets the missing-argument prompt of that intent: no  *)
(* handler is invoked and the main menu of "not understood" is not shown.  *)
(* With anything left, the handler is invoked with the words left:         *)
(* "genre" asks for a genre, "genre action" invokes the genre handler      *)
(* with "action".                                                          *)
(***************************************************************************)
ArgumentLeft(g, text) ==
    LET lowered == Lower(text)
    IN  CASE g = 1 -> Remove(Remove(lowered, P_cari_film), P_search_movie)
          [] g = 2 -> Remove(Remove(lowered, P_cari_aktor), P_search_actor)
          [] g = 4 -> Remove(lowered, P_genre)

MissingArgumentMessage(g) ==
    CASE g = 1 -> "Silakan masukkan judul film yang ingin dicari."
      [] g = 2 -> "Ketik nama aktor atau aktris."
      [] g = 4 -> "Silakan tentukan genre film: ... Genre yang tersedia: {genres_text}"

ArgumentHandler(g) ==
    CASE g = 1 -> "search_movie"
      [] g = 2 -> "search_actor"
      [] g = 4 -> "recommend_movie_by_genre"

C8_MissingArgumentIsPrompted ==
    IntentHandled =>
        LET matching == MatchingGroups(update.text)
            g == Least(matching)
            left == ArgumentLeft(g, update.text)
        IN  (matching # {} /\ g \in {1, 2, 4})
            => IF IsBlank(left)
               THEN /\ calls = <<>>
                    /\ Len(sent) = 1
                    /\ sent[1].text = MissingArgumentMessage(g)
                    /\ sent[1].text # NotUnderstood
                    /\ sent[1].reply_markup = ErrorKeyboard
               ELSE calls = <<[handler |-> ArgumentHandler(g), args |-> Split(left)]>>

C8_Witness ==
    /\ IntentHandled
    /\ update.text = P_genre \o <<" ">> \o P_genre
    /\ calls = <<>>
    /\ sent[1].text = MissingArgumentMessage(4)

(***************************************************************************)
(* C9.  A menu button whose action is none of the known ones logs a        *)
(* warning and sends one error message with the return-to-menu button; no  *)
(* exception leaves the handler, and user_data and the favorites file are  *)
(* as before.                                                              *)
(***************************************************************************)
KnownActions ==
    {W_search, W_actor, W_favorite, P_trending, W_genres, P_favorites, P_cinema,
     P_menu, W_main, P_help}

\* the text between the first and the second underscore of the data
ActionPart(data) ==
    LET rest == SubSeq(data, 6, Len(data))
        cut == {i \in 1..Len(rest) : rest[i] = "_"}
    IN  IF cut = {} THEN rest
        ELSE SubSeq(rest, 1, (CHOOSE i \in cut : \A j \in cut : i <= j) - 1)

UnknownMenuPress ==
    /\ CallbackStep
    /\ Len(update.data) >= 5
    /\ SubSeq(update.data, 1, 5) = <<"m", "e", "n", "u", "_">>
    /\ ActionPart(update.data) \notin KnownActions

C9_UnknownActionDegrades ==
    [][UnknownMenuPress
        => /\ \E k \in 1..Len(log') : log'[k].level = "warning"
           /\ Len(sent') = 1
           /\ sent'[1].text = "Perintah tidak dikenali."
           /\ sent'[1].reply_markup = ErrorKeyboard
           /\ ~raised'
           /\ user_data' = user_data
           /\ favorites_file' = favorites_file]_vars

C9_Witness ==
    /\ status = "done"
    /\ update.data = <<"m", "e", "n", "u", "_", "b", "o", "g", "u", "s">>
    /\ \E k \in 1..Len(log) : log[k].level = "warning"
    /\ user_data[update.user] = [state |-> "search"]
    /\ favorites_file # <<>>

(***************************************************************************)
(* C10.  Whenever search_movie runs with a query (from /search, from the   *)
(* reply to the search prompt, or from a "cari film" / "search movie"      *)
(* text) and the catalog request fails or answers with no results, the     *)
(* user gets the one message "No movies found for '<query>'." with the     *)
(* return-to-menu button; no exception leaves the handler and the          *)
(* favorites file is as before.                                            *)
(***************************************************************************)
SearchCameBackEmpty ==
    /\ status = "queued" /\ status' = "done"
    /\ Len(calls') = 1
    /\ calls'[1].handler = "search_movie"
    /\ calls'[1].args # <<>>
    /\ Len(tmdb_calls') = 1
    /\ \/ ~tmdb_calls'[1].ok
       \/ tmdb_calls'[1].json.results = <<>>

C10_EmptySearchIsReported ==
    [][SearchCameBackEmpty
        => /\ Len(sent') = 1
           /\ sent'[1].text = "No movies found for '{query}'."
           /\ sent'[1].args = <<Join(calls'[1].args, <<" ">>)>>
           /\ sent'[1].reply_markup = ErrorKeyboard
           /\ ~raised'
           /\ favorites_file' = favorites_file]_vars

C10_Witness ==
    /\ status = "done"
    /\ update.text = P_cari_film \o <<" ">> \o W_Up
    /\ branch = "intent"
    /\ Len(tmdb_calls) = 1 /\ ~tmdb_calls[1].ok
    /\ Len(sent) = 1
    /\ sent[1].text = "No movies found for '{query}'."
    /\ sent[1].args = << <<"u", "p">> >>
    /\ favorites_file # <<>>

(***************************************************************************)
(* C11.  Every update that is handled (a text in any state, a button       *)
(* press, a location, a slash command) gets at least one message sent or   *)
(* edited, and no exception leaves its handler.                            *)
(***************************************************************************)
HandlingStep == status = "queued" /\ status' = "done"

C11_EveryEventIsAnswered ==
    [][HandlingStep => (Len(sent') >= 1 /\ ~raised')]_vars

(***************************************************************************)
(* C12.  Handling the same button press a second time, with the catalog    *)
(* answering as it did the first time, leaves the user's pending state     *)
(* and the favorites file as the first handling left them.  For a save     *)
(* press that added its title, the second handling reports "already        *)
(* present".                                                               *)
(***************************************************************************)
\* what the handler registered for the button press does from the given state
ButtonHandler(upd, ud, file, genres) ==
    IF MatchesPrefixDigits(upd, W_detail)
    THEN {[eff |-> e, user_data |-> ud, file |-> file] : e \in show_movie_details(upd)}
    ELSE IF MatchesPrefixDigits(upd, W_save)
    THEN {[eff |-> r.eff, user_data |-> ud, file |-> r.file]
          : r \in save_favorite_movie(upd, file)}
    ELSE IF MatchesPrefix(upd, P_menu)
    THEN {[eff |-> r.eff, user_data |-> r.user_data, file |-> file]
          : r \in handle_menu_button(upd, ud, file, genres)}
    ELSE IF MatchesPrefix(upd, P_genre)
    THEN {[eff |-> e, user_data |-> ud, file |-> file]
          : e \in handle_genre_button(upd, genres)}
    ELSE {}

\* the outcomes of pressing the button just handled once more
PressedAgain ==
    {r \in ButtonHandler(update, user_data[update.user], favorites_file, GENRES) :
        r.eff.tmdb = tmdb_calls}

AddedMessage == "'{movie_title}' telah ditambahkan ke daftar favorit Anda."

PresentMessage == "'{movie_title}' sudah ada di daftar favorit Anda."

C12_RepeatedPressIsIdempotent ==
    (status = "done" /\ update.kind = "callback_query") =>
        \A r \in PressedAgain :
            /\ r.user_data = user_data[update.user]
            /\ r.file = favorites_file
            /\ (Len(sent) = 1 /\ sent[1].text = AddedMessage)
                  => (Len(r.eff.sent) = 1 /\ r.eff.sent[1].text = PresentMessage)

C12_Witness ==
    /\ status = "done"
    /\ update.data = CallbackData(W_save, Str(2))
    /\ Len(sent) = 1 /\ sent[1].text = AddedMessage
    /\ favorites_file[Str(update.user)] = <<W_UP>>
    /\ \E r \in PressedAgain :
          r.eff.sent[1].text = PresentMessage /\ r.file = favorites_file

(***************************************************************************)
(* The favorites store when favorites.json becomes unreadable: somebody    *)
(* removes the file, or leaves it holding no JSON document.                *)
(***************************************************************************)
\* the file is removed while the bot runs
FileRemoved ==
    /\ status = "idle"
    /\ file_state # "missing"
    /\ file_state' = "missing"
    /\ favorites_file' = <<>>
    /\ UNCHANGED <<user_data, GENRES, update, status, answered, sent, calls,
                   tmdb_calls, store_calls, log, raised, branch, before, tasks>>

\* the file is left with content json.load cannot read (empty, truncated)
FileDamaged ==
    /\ status = "idle"
    /\ file_state # "corrupt"
    /\ file_state' = "corrupt"
    /\ favorites_file' = <<>>
    /\ UNCHANGED <<user_data, GENRES, update, status, answered, sent, calls,
                   tmdb_calls, store_calls, log, raised, branch, before, tasks>>

NextUnreadable ==
    \/ PollFavorites
    \/ Handle_save
    \/ Handle_menu
    \/ Handle_favorites
    \/ Done
    \/ FileRemoved
    \/ FileDamaged

SpecUnreadable == Init /\ [][NextUnreadable]_vars

(***************************************************************************)
(* C13.  When the favorites file cannot be read (it is missing, or it is   *)
(* there but cannot be loaded), a handler that loads it goes on with the   *)
(* empty mapping: no exception leaves the handler, a view of the           *)
(* favorites reports that there are none, and a save press stores its      *)
(* title as the user's only favorite.                                      *)
(***************************************************************************)
NoFavoritesMessage == "Anda belum memiliki film favorit."

C13_UnreadableFileIsEmpty ==
    [][(HandlingStep /\ file_state # "ok" /\ store_calls' # <<>>)
        => /\ ~raised'
           /\ Len(sent') = 1
           /\ IF SaveStep
              THEN /\ sent'[1].text = AddedMessage
                   /\ favorites_file' =
                        [uid \in {Str(update.user)} |-> <<tmdb_calls'[1].json.title>>]
              ELSE /\ sent'[1].text = NoFavoritesMessage
                   /\ favorites_file' = favorites_file]_vars

(***************************************************************************)
(* Updates of one user handled concurrently: the handler coroutines run    *)
(* on one event loop, so a handler runs alone from one await to the next   *)
(* and another handler can only run while it is suspended in an await.     *)
(*   "answer"  suspended in `await query.answer()`, the first statement    *)
(*             of a button handler                                         *)
(*   "reply"   suspended in the await that sends the reply, or returned:   *)
(*             the handler reads and writes no state from there on         *)
(***************************************************************************)
ConcurrentUpdates ==
    {CallbackUpdate(1, CallbackData(W_save, Str(i))) : i \in 1..3}
    \cup {CallbackUpdate(1, CallbackData(P_menu, W_search))}
    \cup {TextUpdate(1, W_Up), TextUpdate(1, P_trending)}

\* the load moved before `await query.answer()`: the handler works on the
\* favorites as they were when it suspended
FavoritesRead_BeforeAwait(at_answer, at_resume) == at_answer

\* the file content load_favorites() reads in save_favorite_movie: the call
\* (line 277) comes after `await query.answer()` (line 270) has returned, and no
\* await stands between it and save_favorites (line 285)
FavoritesRead(at_answer, at_resume) == at_resume

\* the texts and arguments of the messages of an effect
Reported(e) == [k \in 1..Len(e.sent) |-> [text |-> e.sent[k].text, args |-> e.sent[k].args]]

ConcurrentFrame ==
    UNCHANGED <<GENRES, update, status, answered, sent, calls, tmdb_calls,
                store_calls, log, raised, branch, before>>

\* a button handler starts and suspends in `await query.answer()`
AwaitAnswer(t) ==
    /\ tasks[t].pc = "idle"
    /\ \E upd \in ConcurrentUpdates :
          /\ upd.kind = "callback_query"
          /\ tasks' = [tasks EXCEPT ![t] = [NoTask EXCEPT !.update = upd,
                                                          !.pc = "answer",
                                                          !.seen = favorites_file]]
    /\ ConcurrentFrame
    /\ UNCHANGED <<user_data, favorites_file, file_state>>

\* save_favorite_movie from `query.answer()` to the await of its reply
ResumeSave(t) ==
    /\ tasks[t].pc = "answer"
    /\ MatchesPrefixDigits(tasks[t].update, W_save)
    /\ \E r \in save_favorite_movie(tasks[t].update,
                                    FavoritesRead(tasks[t].seen, favorites_file)) :
          /\ favorites_file' = r.file
          /\ file_state' = IF Saved(r.eff) THEN "ok" ELSE file_state
          /\ tasks' = [tasks EXCEPT ![t].pc = "reply",
                                    ![t].reported = Reported(r.eff),
                                    ![t].raised = r.eff.raised]
    /\ ConcurrentFrame
    /\ UNCHANGED user_data

\* handle_menu_button from `query.answer()` to the await of its reply
ResumeMenu(t) ==
    /\ tasks[t].pc = "answer"
    /\ MatchesPrefix(tasks[t].update, P_menu)
    /\ \E r \in handle_menu_button(tasks[t].update, user_data[tasks[t].update.user],
                                   favorites_file, GENRES) :
          /\ user_data' = [user_data EXCEPT ![tasks[t].update.user] = r.user_data]
          /\ tasks' = [tasks EXCEPT ![t].pc = "reply",
                                    ![t].reported = Reported(r.eff),
                                    ![t].raised = r.eff.raised]
    /\ ConcurrentFrame
    /\ UNCHANGED <<favorites_file, file_state>>

\* text_message_handler from its start to the await of its first reply: no
\* await stands before the test for a pending state and its pop (lines 397-401)
RunText(t) ==
    /\ tasks[t].pc = "idle"
    /\ \E upd \in ConcurrentUpdates :
          /\ upd.kind = "message"
          /\ \E r \in text_message_handler(upd, user_data[upd.user],
                                           favorites_file, GENRES) :
                /\ user_data' = [user_data EXCEPT ![upd.user] = r.user_data]
                /\ tasks' = [tasks EXCEPT ![t] =
                                [NoTask EXCEPT !.update = upd,
                                               !.pc = "reply",
                                               !.seen = favorites_file,
                                               !.reported = Reported(r.eff),
                                               !.calls = r.eff.calls,
                                               !.branch = r.branch,
                                               !.raised = r.eff.raised]]
    /\ ConcurrentFrame
    /\ UNCHANGED <<favorites_file, file_state>>

NextConcurrent ==
    \E t \in Tasks :
        \/ AwaitAnswer(t)
        \/ ResumeSave(t)
        \/ ResumeMenu(t)
        \/ RunText(t)

\* the genre table plays no part here: the run in which it was loaded
InitConcurrent == Init /\ GENRES # <<>>

SpecConcurrent == InitConcurrent /\ [][NextConcurrent]_vars

(***************************************************************************)
(* C14.  Two save presses of one user for two distinct titles, handled     *)
(* concurrently, lose no update: when both have reported the title as      *)
(* added, the stored list of the user holds both titles.                   *)
(* C14_LostUpdateHappens is the statement that two such presses in flight  *)
(* together, both reporting success, end with only one title stored.       *)
(***************************************************************************)
\* task t is a save press that reported its title as added
ReportedAdded(t) ==
    /\ tasks[t].pc = "reply"
    /\ Len(tasks[t].reported) = 1
    /\ tasks[t].reported[1].text = AddedMessage

AddedTitle(t) == tasks[t].reported[1].args[1]

Stores(u, title) ==
    \E k \in 1..Len(StoredFor(favorites_file, u)) :
        StoredFor(favorites_file, u)[k] = title

LostUpdate ==
    \E t1, t2 \in Tasks :
        /\ t1 # t2
        /\ ReportedAdded(t1) /\ ReportedAdded(t2)
        /\ tasks[t1].update.user = tasks[t2].update.user
        /\ AddedTitle(t1) # AddedTitle(t2)
        /\ \/ ~Stores(tasks[t1].update.user, AddedTitle(t1))
           \/ ~Stores(tasks[t1].update.user, AddedTitle(t2))

C14_NoLostUpdate == ~LostUpdate

\* both handlers were suspended before either wrote, and both titles are stored
C14_Witness ==
    /\ ReportedAdded(1) /\ ReportedAdded(2)
    /\ tasks[1].seen = <<>> /\ tasks[2].seen = <<>>
    /\ AddedTitle(1) = W_Her /\ AddedTitle(2) = W_Up
    /\ favorites_file[Str(1)] = <<W_Her, W_Up>>

\* two save presses of one user for distinct titles were both suspended before
\* either wrote, and both reported their title as added
BothAddedConcurrently ==
    \E t1, t2 \in Tasks :
        /\ t1 # t2
        /\ ReportedAdded(t1) /\ ReportedAdded(t2)
        /\ tasks[t1].update.user = tasks[t2].update.user
        /\ AddedTitle(t1) # AddedTitle(t2)
        /\ tasks[t1].seen = tasks[t2].seen

C14_LostUpdateHappens == BothAddedConcurrently => LostUpdate

(***************************************************************************)
(* C20.  A pending state is consumed by at most one text: of the texts of  *)
(* a user handled concurrently, no more take the pending-state branch      *)
(* (and run the prompted handler) than prompt buttons of that user have    *)
(* been handled; every other text goes through the intent matching.        *)
(***************************************************************************)
PromptedTexts(u) ==
    {t \in Tasks : /\ tasks[t].pc = "reply"
                   /\ IsPlainText(tasks[t].update)
                   /\ tasks[t].update.user = u
                   /\ tasks[t].branch = "state"}

PromptsArmed(u) ==
    {t \in Tasks : /\ tasks[t].pc = "reply"
                   /\ tasks[t].update.kind = "callback_query"
                   /\ tasks[t].update.user = u
                   /\ PromptOfData(tasks[t].update.data) # "none"}

C20_PromptConsumedOnce ==
    \A u \in Users :
        /\ Cardinality(PromptedTexts(u)) <= Cardinality(PromptsArmed(u))
        /\ \A t \in Tasks :
              (tasks[t].pc = "reply" /\ IsPlainText(tasks[t].update)
               /\ tasks[t].update.user = u)
              => /\ tasks[t].branch \in {"state", "intent"}
                 /\ tasks[t].branch = "state"
                       => (Len(tasks[t].calls) = 1
                           /\ tasks[t].calls[1].handler = "search_movie")
                 /\ tasks[t].branch = "intent"
                       => \A k \in 1..Len(tasks[t].calls) :
                             tasks[t].calls[k].handler = "trending_movies"

\* one prompt, two texts: one ran the prompted handler, the other was matched
C20_Witness ==
    /\ Cardinality(PromptsArmed(1)) = 1
    /\ \E t1, t2 \in Tasks :
          /\ tasks[t1].pc = "reply" /\ tasks[t1].update.text = P_trending
          /\ tasks[t1].branch = "state"
          /\ tasks[t1].calls[1].handler = "search_movie"
          /\ tasks[t2].pc = "reply" /\ tasks[t2].update.text = P_trending
          /\ tasks[t2].branch = "intent"
          /\ tasks[t2].calls[1].handler = "trending_movies"
    /\ user_data[1] = <<>>

(***************************************************************************)
(* C15.  The favorites file changes only in a save press whose lookup came *)
(* back with movie details and whose title is not yet stored for the       *)
(* pressing user (ignoring case), and then exactly by that title appended  *)
(* at the end of the pressing user's list: the titles stored before keep   *)
(* their places and every other user's list is as it was.  Texts in any    *)
(* state, commands, the other buttons, locations and a save whose lookup   *)
(* came back empty leave the file unchanged.                               *)
(***************************************************************************)
\* every kind of update from one user, and the save presses of both users for
\* every movie of the catalog
StoreUpdates == {upd \in Updates : upd.user = 1} \cup FavoriteUpdates

PollStore == PollFrom(StoreUpdates)

NextStore ==
    \/ PollStore
    \/ Handle_start
    \/ Handle_help
    \/ Handle_search
    \/ Handle_genre
    \/ Handle_actor
    \/ Handle_trending
    \/ Handle_favorite
    \/ Handle_favorites
    \/ Handle_nearest_cinema
    \/ Handle_detail
    \/ Handle_save
    \/ Handle_menu
    \/ Handle_genre_button
    \/ Handle_location
    \/ Handle_text
    \/ Unhandled
    \/ Done

SpecStore == Init /\ [][NextStore]_vars

LookedUpTitle(lookups) == Get(lookups[1].json, "title", W_Unknown)

StoredIgnoringCase(mine, title) ==
    \E k \in 1..Len(mine) : SameIgnoringCase(mine[k], title)

AppendedFor(file, u, title) ==
    [uid \in DOMAIN file \cup {Str(u)} |->
        IF uid = Str(u) THEN Append(StoredFor(file, u), title) ELSE file[uid]]

C15_FavoritesChangeOnlyByAppend ==
    [][favorites_file' # favorites_file
       => /\ SaveStep
          /\ tmdb_calls' # <<>>
          /\ tmdb_calls'[1].json # <<>>
          /\ ~StoredIgnoringCase(StoredFor(favorites_file, update.user),
                                 LookedUpTitle(tmdb_calls'))
          /\ favorites_file' = AppendedFor(favorites_file, update.user,
                                           LookedUpTitle(tmdb_calls'))]_vars

C15_Witness ==
    /\ status = "done"
    /\ update.kind = "callback_query"
    /\ update.user = 2
    /\ Len(sent) = 1
    /\ sent[1].text = "'{movie_title}' telah ditambahkan ke daftar favorit Anda."
    /\ sent[1].args = << <<"H", "e", "r">> >>
    /\ DOMAIN favorites_file = {<<"1">>, <<"2">>}
    /\ favorites_file[<<"2">>] = << <<"U", "p">>, <<"H", "e", "r">> >>
    /\ favorites_file[<<"1">>] = << <<"H", "e", "r">> >>

(***************************************************************************)
(* C16.  A user's pending state changes only when a text message of that   *)
(* user is handled or that user presses the menu button "search", "actor"  *)
(* or "favorite".  Commands, locations, the other menu buttons (known or   *)
(* not) and the detail, save and genre buttons leave every user's          *)
(* user_data as it was, so a pending state outlasts any number of them.    *)
(***************************************************************************)
PromptPress ==
    CallbackStep /\ PromptOfData(update.data) # "none"

C16_PendingChangesOnlyByPromptOrText ==
    [][\A u \in Users :
          user_data'[u] # user_data[u]
          => /\ u = update.user
             /\ (TextStep \/ PromptPress)]_vars

\* a location shared while the actor prompt is pending
C16_Witness ==
    /\ status = "done"
    /\ update.kind = "message"
    /\ update.location # <<>>
    /\ Len(sent) >= 1
    /\ before = [state |-> "actor"]
    /\ user_data[update.user] = [state |-> "actor"]

(***************************************************************************)
(* C17.  A slash command handled while a prompt is pending clears the      *)
(* pending state of its sender: after the command the sender's user_data   *)
(* holds no state, so the next plain text is matched against the phrases   *)
(* and not taken as the answer to the earlier prompt.                      *)
(***************************************************************************)
CommandStep == HandlingStep /\ IsCommand(update)

C17_CommandClearsPending ==
    [][(CommandStep /\ Pending(update.user) \in Prompts)
        => user_data'[update.user] = <<>>]_vars

(***************************************************************************)
(* C18.  A free text handled with nothing pending that falls to the        *)
(* favorites group and has "tambah" or "add" in it: when every word of the *)
(* text is one of the trigger words "favorit", "favorites", "tambah",      *)
(* "add", the missing-title prompt is sent and add_favorite is not         *)
(* invoked; and add_favorite is never invoked with a trigger word among    *)
(* its arguments.                                                          *)
(***************************************************************************)
TriggerWords == {P_favorit, P_favorites, P_tambah, P_add}

MissingTitleMessage == "Ketik judul film untuk favorit."

OnlyTriggerWords(text) ==
    LET words == Split(text)
    IN  \A k \in 1..Len(words) : words[k] \in TriggerWords

FavoritesAddHandled ==
    /\ IntentHandled
    /\ LET lowered == Lower(update.text)
           matching == MatchingGroups(update.text)
       IN  /\ matching # {}
           /\ Least(matching) = 5
           /\ (Contains(lowered, P_tambah) \/ Contains(lowered, P_add))

C18_AddWithoutTitleIsPrompted ==
    FavoritesAddHandled =>
        /\ OnlyTriggerWords(Lower(update.text))
           => /\ calls = <<>>
              /\ Len(sent) = 1
              /\ sent[1].text = MissingTitleMessage
        /\ \A k \in 1..Len(calls) :
              calls[k].handler = "add_favorite"
              => \A i \in 1..Len(calls[k].args) : calls[k].args[i] \notin TriggerWords

(***************************************************************************)
(* C19.  A press of the menu button "search", "actor" or "favorite" while  *)
(* a state is already pending replaces it: afterwards the presser's        *)
(* pending state is the one of this press, whatever was pending before.    *)
(* The text handled next with a state pending invokes no handler but the   *)
(* one of that state, so the prompts pressed earlier are never answered.   *)
(***************************************************************************)
C19_LatestPromptWins ==
    [][/\ (PromptPress /\ Pending(update.user) \in Prompts)
          => user_data'[update.user] = [state |-> PromptOfData(update.data)]
       /\ (TextStep /\ Pending(update.user) \in Prompts)
          => \A k \in 1..Len(calls') :
                calls'[k].handler = PromptHandler(Pending(update.user))]_vars

\* "actor" pressed with the search prompt pending
C19_Witness ==
    /\ status = "done"
    /\ update.kind = "callback_query"
    /\ PromptOfData(update.data) = "actor"
    /\ before = [state |-> "search"]
    /\ user_data[update.user] = [state |-> "actor"]
    /\ Len(sent) = 1
    /\ sent[1].text = PromptMessage("actor")

(***************************************************************************)
(* C21.  user_data is kept per user.  Handling an update of one user       *)
(* leaves the user_data of every other user as it was, and a text message  *)
(* is routed by the sender's own pending state alone: with a state pending *)
(* for the sender the text takes the state branch and invokes no handler   *)
(* but that state's; with none pending for the sender it goes through the  *)
(* intent matching, whatever is pending for anyone else.                   *)
(***************************************************************************)
Others(u) == Users \ {u}

C21_SessionsAreIsolated ==
    [][HandlingStep
       => /\ \A u \in Others(update.user) : user_data'[u] = user_data[u]
          /\ TextStep
             => IF Pending(update.user) \in Prompts
                THEN /\ branch' = "state"
                     /\ \A k \in 1..Len(calls') :
                           calls'[k].handler = PromptHandler(Pending(update.user))
                ELSE branch' = "intent"]_vars

\* user 2 answers the actor prompt while the search prompt of user 1 is pending
C21_Witness ==
    /\ status = "done"
    /\ IsPlainText(update)
    /\ update.user = 2
    /\ before = [state |-> "actor"]
    /\ branch = "state"
    /\ Len(calls) = 1
    /\ calls[1].handler = "search_actor"
    /\ user_data[2] = <<>>
    /\ user_data[1] = [state |-> "search"]

=============================================================================
